---------------------------- MODULE Spec2Model ----------------------------
(***************************************************************************)
(* A model of stylelab's v2 attribute-to-stylesheet compiler               *)
(* (src/v2/style.js): register, the MutationObserver callback,             *)
(* batchChanges, processElementStyle, removeElementStyle, parseAttribute,  *)
(* updateRules and the style tag store.                                    *)
(*                                                                         *)
(* JavaScript strings that the code searches, splits or splices are        *)
(* sequences of one-character strings; strings that are only compared      *)
(* (media query texts) are TLA+ strings.                                   *)
(***************************************************************************)
EXTENDS Integers, Sequences, FiniteSets

(***************************************************************************)
(* JavaScript string primitives used by the code.                          *)
(***************************************************************************)

\* a missing value (undefined or null); no string equals it
Undefined == <<"undefined">>

Min(a, b) == IF a < b THEN a ELSE b

\* String.prototype.startsWith(searchString)
StartsWith(s, p) == Len(p) <= Len(s) /\ SubSeq(s, 1, Len(p)) = p

\* String.prototype.indexOf(searchString): 0-based first occurrence or -1
IndexOf(s, p) ==
    LET hits == {i \in 0..(Len(s) - Len(p)) : SubSeq(s, i + 1, i + Len(p)) = p}
    IN  IF hits = {} THEN -1
        ELSE CHOOSE i \in hits : \A j \in hits : i <= j

\* String.prototype.slice(start, end) for start >= 0 and end >= 0
Slice(s, start, end) ==
    LET from == Min(start, Len(s))
        to   == Min(end, Len(s))
    IN  IF to <= from THEN <<>> ELSE SubSeq(s, from + 1, to)

\* the grave accent character (written by name: the character itself
\* opens a quotation in TLA+ source text)
Backtick == "backtick"

\* GetSubstitution of ECMAScript for a string pattern (no captures): in the
\* replacement text, dollar dollar is a dollar, dollar ampersand the matched
\* text, dollar backtick the text before the match, dollar apostrophe the
\* text after it; any other dollar is literal.
RECURSIVE GetSubstitution(_, _, _, _)
GetSubstitution(matched, str, position, replacement) ==
    IF replacement = <<>> THEN <<>>
    ELSE IF Head(replacement) = "$" /\ Len(replacement) >= 2
         THEN LET c    == replacement[2]
                  rest == SubSeq(replacement, 3, Len(replacement))
              IN  IF c = "$"
                  THEN <<"$">> \o GetSubstitution(matched, str, position, rest)
                  ELSE IF c = "&"
                  THEN matched \o GetSubstitution(matched, str, position, rest)
                  ELSE IF c = Backtick
                  THEN SubSeq(str, 1, position)
                          \o GetSubstitution(matched, str, position, rest)
                  ELSE IF c = "'"
                  THEN SubSeq(str, position + Len(matched) + 1, Len(str))
                          \o GetSubstitution(matched, str, position, rest)
                  ELSE <<"$">> \o GetSubstitution(matched, str, position,
                                                  Tail(replacement))
         ELSE <<Head(replacement)>>
                 \o GetSubstitution(matched, str, position, Tail(replacement))

\* String.prototype.replace(pattern, replacement) with a string pattern: the
\* first occurrence only, the replacement text expanded by GetSubstitution
Replace(s, pattern, replacement) ==
    LET pos == IndexOf(s, pattern)
    IN  IF pos = -1 THEN s
        ELSE SubSeq(s, 1, pos)
                \o GetSubstitution(pattern, s, pos, replacement)
                \o SubSeq(s, pos + Len(pattern) + 1, Len(s))

\* String.prototype.split(separator)
RECURSIVE Split(_, _)
Split(s, sep) ==
    IF sep = <<>>
    THEN [i \in 1..Len(s) |-> <<s[i]>>]
    ELSE LET pos == IndexOf(s, sep)
         IN  IF pos = -1 THEN <<s>>
             ELSE <<SubSeq(s, 1, pos)>>
                     \o Split(SubSeq(s, pos + Len(sep) + 1, Len(s)), sep)

\* Array.prototype.join(separator)
RECURSIVE Join(_, _)
Join(parts, sep) ==
    IF parts = <<>> THEN <<>>
    ELSE IF Len(parts) = 1 THEN parts[1]
    ELSE parts[1] \o sep \o Join(Tail(parts), sep)

\* Array.prototype.slice(start) for start >= 0
ArraySlice(arr, start) ==
    IF start >= Len(arr) THEN <<>> ELSE SubSeq(arr, start + 1, Len(arr))

Digits == <<"0", "1", "2", "3", "4", "5", "6", "7", "8", "9">>

\* Number.prototype.toString() of a non-negative integer
RECURSIVE NumberToString(_)
NumberToString(n) ==
    IF n < 10 THEN <<Digits[n + 1]>>
    ELSE NumberToString(n \div 10) \o <<Digits[(n % 10) + 1]>>

DigitValue(c) == (CHOOSE i \in 1..10 : Digits[i] = c) - 1

\* parseInt of a decimal digit string
RECURSIVE ParseInt(_)
ParseInt(s) ==
    IF Len(s) = 1 THEN DigitValue(s[1])
    ELSE 10 * ParseInt(SubSeq(s, 1, Len(s) - 1)) + DigitValue(s[Len(s)])

(***************************************************************************)
(* Configuration.                                                          *)
(***************************************************************************)

\* createConfig: the unconditional entry first, then the given media
\* queries; every other option falls back to its default when missing.
\* The class prefix is read from the option named classPrefix.
createConfig(options) ==
    [mediaQueries    |-> <<[id |-> <<>>, query |-> ""]>> \o options.mediaQueries,
     attributeName   |-> IF options.attributeName = Undefined
                         THEN <<"s", "t", "y", "l", "e">>
                         ELSE options.attributeName,
     separator       |-> IF options.separator = Undefined
                         THEN <<":">>
                         ELSE options.separator,
     idAttributeName |-> IF options.idAttributeName = Undefined
                         THEN <<"s", "t", "y", "l", "e", "-", "i", "d", "-",
                                "c", "l", "a", "s", "s">>
                         ELSE options.idAttributeName,
     idClassPrefix   |-> IF options.classPrefix = Undefined
                         THEN <<"s", "t", "y", "l", "e", "-">>
                         ELSE options.classPrefix]

\* Array.prototype.find over config.mediaQueries by id, then ?.query ?? ""
FindQuery(mediaQueries, id) ==
    LET hits == {i \in 1..Len(mediaQueries) : mediaQueries[i].id = id}
    IN  IF hits = {} THEN ""
        ELSE mediaQueries[CHOOSE i \in hits : \A j \in hits : i <= j].query

\* parseAttribute(attr, config)
parseAttribute(attr, config) ==
    LET attrParts   == Split(attr, config.separator)
        second      == IF Len(attrParts) >= 2 THEN attrParts[2] ELSE Undefined
        mediaQuery  == FindQuery(config.mediaQueries, second)
        name        == Join(ArraySlice(attrParts, IF mediaQuery # "" THEN 2 ELSE 1),
                            config.separator)
    IN  [mediaQuery     |-> mediaQuery,
         pseudoSelector |-> IF name # <<>> THEN <<":">> \o name ELSE <<>>]

(***************************************************************************)
(* The rule text editor.                                                   *)
(***************************************************************************)

Selector(idClass, pseudoSelector) == <<".">> \o idClass \o pseudoSelector
StartSelector(selector) == selector \o <<"{">>
EndSelector(selector)   == <<"}", "/", "*">> \o selector \o <<"*", "/">>

\* updateRules(idClass, pseudoSelector, rules, allRules)
updateRules(idClass, pseudoSelector, rules, allRules) ==
    LET selector      == Selector(idClass, pseudoSelector)
        startSelector == StartSelector(selector)
        endSelector   == EndSelector(selector)
        style         == IF Len(rules) > 0
                         THEN startSelector \o rules \o endSelector
                         ELSE <<>>
        startIndex    == IndexOf(allRules, startSelector)
    IN  IF startIndex > -1
        THEN LET endIndex == IndexOf(allRules, endSelector) + Len(endSelector)
             IN  Replace(allRules, Slice(allRules, startIndex, endIndex), style)
        ELSE allRules \o style

(***************************************************************************)
(* The document, the registration and the style tag store.                 *)
(***************************************************************************)

\* bound: the number of document mutations the host performs
MaxMutations == 4

\* the options register is called with: one media query, lg, and the
\* identity class prefix x- under the name the StyleConfig typedef and the
\* bootstrap give it, idClassPrefix; everything else is left to its default
\* (no option named classPrefix is passed)
Options ==
    [mediaQueries    |-> <<[id |-> <<"l", "g">>,
                            query |-> "screen and (min-width: 1280px)"]>>,
     attributeName   |-> Undefined,
     separator       |-> Undefined,
     idAttributeName |-> Undefined,
     idClassPrefix   |-> <<"x", "-">>,
     classPrefix     |-> Undefined]

config == createConfig(Options)

\* the node register is called with, and the elements of the document: E1 is
\* a child of the root when attached, E2 a child of E1 when attached
Root  == "root"
Elems == {"E1", "E2"}
Nodes == Elems \cup {Root}
Home  == [e \in Elems |-> IF e = "E1" THEN Root ELSE "E1"]
Detached == "detached"

\* the styling attributes the host writes: style:lg and style:hover
AttrLg    == config.attributeName \o config.separator \o <<"l", "g">>
AttrHover == config.attributeName \o config.separator \o <<"h", "o", "v", "e", "r">>
StyleAttrs == <<AttrLg, AttrHover>>

\* the styling attributes the host writes on each element
HostAttrs == [e \in Elems |-> IF e = "E1" THEN {AttrLg, AttrHover} ELSE {AttrLg}]

\* an attribute whose name starts with the text "undefined"
AttrUndefined == <<"u", "n", "d", "e", "f", "i", "n", "e", "d">>
ClassAttr == <<"c", "l", "a", "s", "s">>

\* the rule bodies the host writes; the last one holds a dollar sign followed
\* by an apostrophe, as in  content:'$'
Bodies == {<<"r">>, <<"b">>, <<"$", "'">>}
Values == {<<>>} \cup Bodies

VARIABLES
    parent,      \* parent[e]: the node e is a child of, or Detached
    isHTML,      \* isHTML[e]: e instanceof HTMLElement
    attrs,       \* attrs[n][a]: the value of styling attribute a of n, or Undefined
    idAttr,      \* idAttr[n]: the value of n's identity marker attribute, or Undefined
    classList,   \* classList[n]: the class tokens of n
    styleTags,   \* styleTags[query]: the style element of a media query
    observing,   \* attrObserver.observe has been called
    queue,       \* the observer's record queue
    pc,          \* "idle", "collecting" or "committing"
    initial,     \* the pass under way is register's own
    records,     \* the records of the batch not yet handled
    changeSet,   \* changeSet[query]: the working text of the pass
    commitLeft,  \* the keys of changeSet not yet written back
    nMut,        \* the number of host mutations so far
    head,        \* head[query]: the number of style[js-style] elements of the
                 \* document whose media attribute is query
    written,     \* the media queries whose style element has had its
                 \* textContent assigned in the pass under way or last ended
    thrown,      \* a TypeError has ended register or a pass
    parse,       \* a call of parseAttribute: its arguments and its result
    edit,        \* a call of updateRules: its arguments and its result
    nodeRegistry,    \* part_000: the registered nodes
    cleanUpRegistry, \* part_000: the clean-up functions, each named by the
                     \* number of the register call that made it
    registrations,   \* part_000: registrations[n].node: the node of the
                     \* nth call of register
    listeners,       \* part_000: the change listeners on the media query
                     \* list, each a register call's number and its handler
    observers,       \* part_000: the register calls whose observer is connected
    elementAttrs,    \* part_000: the attributes style, base:style and
                     \* lg:style of the elements
    matches,         \* part_000: the matches property of the lg media query list
    lastCall         \* part_000: lastCall[n]: the last call that changed
                     \* the registration of node n, if any

\* the variables of the earlier generation (src/unnamed/part_000)
legacy == <<nodeRegistry, cleanUpRegistry, registrations, listeners,
            observers, elementAttrs, matches, lastCall>>

\* the variables that only the specifications of single functions, and of
\* the earlier generation, use
aside == <<parse, edit, legacy>>

\* the variables of the registration
engine == <<parent, isHTML, attrs, idAttr, classList, styleTags, observing,
            queue, pc, initial, records, changeSet, commitLeft, nMut, head,
            written, thrown>>

vars == <<parent, isHTML, attrs, idAttr, classList, styleTags, observing,
          queue, pc, initial, records, changeSet, commitLeft, nMut, head,
          written, thrown, aside>>

\* the keys of the change set, in insertion order (batchChanges, the for-of
\* loop over config.mediaQueries)
RECURSIVE DistinctQueries(_, _)
DistinctQueries(mqs, seen) ==
    IF mqs = <<>> THEN <<>>
    ELSE IF Head(mqs).query \in seen THEN DistinctQueries(Tail(mqs), seen)
    ELSE <<Head(mqs).query>>
            \o DistinctQueries(Tail(mqs), seen \cup {Head(mqs).query})

Queries == DistinctQueries(config.mediaQueries, {})
QuerySet == {Queries[i] : i \in 1..Len(Queries)}

\* n is the registered node or a descendant of it
RECURSIVE InTree(_)
InTree(n) ==
    IF n = Root THEN TRUE
    ELSE IF n = Detached THEN FALSE
    ELSE InTree(parent[n])

\* a mutation of n is recorded: the observer observes the registered node
\* and its subtree
Observed(n) == observing /\ InTree(n)

\* n and its descendants
RECURSIVE IsUnder(_, _)
IsUnder(n, top) ==
    IF n = top THEN TRUE
    ELSE IF n \in {Root, Detached} THEN FALSE
    ELSE IsUnder(parent[n], top)

Subtree(top) == {n \in Nodes : IsUnder(n, top)}

\* Element.getAttributeNames(), the styling attributes among them
RECURSIVE PresentAttrs(_, _)
PresentAttrs(n, names) ==
    IF names = <<>> THEN <<>>
    ELSE IF attrs[n][Head(names)] # Undefined
         THEN <<Head(names)>> \o PresentAttrs(n, Tail(names))
         ELSE PresentAttrs(n, Tail(names))

\* the XPath expression of register: the node itself or a descendant with
\* an attribute whose name starts with attributeName + separator
Matched(top) ==
    {n \in Subtree(top) :
        \E i \in 1..Len(StyleAttrs) :
            /\ attrs[n][StyleAttrs[i]] # Undefined
            /\ StartsWith(StyleAttrs[i], config.attributeName \o config.separator)}

\* the orders in which a snapshot may list the elements of S
Orders(S) ==
    {o \in [1..Cardinality(S) -> S] : \A i, j \in DOMAIN o : o[i] = o[j] => i = j}

AttrRecord(target, name) ==
    [type |-> "attributes", target |-> target, attributeName |-> name,
     addedNodes |-> <<>>, removedNodes |-> <<>>]

ChildRecord(target, added, removed) ==
    [type |-> "childList", target |-> target, attributeName |-> Undefined,
     addedNodes |-> added, removedNodes |-> removed]

(***************************************************************************)
(* The engine.  The functions below work on loc, the state a pass reads    *)
(* and writes: the change set, the identity markers and class lists of the *)
(* elements, the style tags and the observer's record queue.               *)
(***************************************************************************)

\* the records of the two writes that give element its identity
IdentityRecords(element) ==
    IF Observed(element)
    THEN <<AttrRecord(element, config.idAttributeName),
           AttrRecord(element, ClassAttr)>>
    ELSE <<>>

\* parseInt(styleTag.getAttribute("last-id") ?? 0) + 1
NextId(styleTag) ==
    (IF styleTag.lastId = Undefined THEN 0 ELSE ParseInt(styleTag.lastId)) + 1

\* processElementStyle, lines 114-121: a new identity for element
AssignIdentity(element, loc) ==
    LET nextId  == NextId(loc.styleTags[""])
        idClass == config.idClassPrefix \o NumberToString(nextId)
    IN  [loc EXCEPT !.idClass   = idClass,
                    !.styleTags = [@ EXCEPT ![""].lastId = NumberToString(nextId)],
                    !.idAttr    = [@ EXCEPT ![element] = idClass],
                    !.classList = [@ EXCEPT ![element] = @ \cup {idClass}],
                    !.queue     = @ \o IdentityRecords(element)]

\* UpsertRule writing the text to the style element as well
UpsertRuleWritingThrough(element, attr, rules, loc) ==
    IF loc.idClass # Undefined
    THEN LET parsed == parseAttribute(attr, config)
             text   == updateRules(loc.idClass, parsed.pseudoSelector, rules,
                                   loc.changeSet[parsed.mediaQuery])
         IN  [loc EXCEPT !.changeSet[parsed.mediaQuery] = text,
                         !.styleTags[parsed.mediaQuery].textContent = text]
    ELSE loc

\* processElementStyle, lines 123-126: the block of attr in the change set
UpsertRule(element, attr, rules, loc) ==
    IF loc.idClass # Undefined
    THEN LET parsed == parseAttribute(attr, config)
         IN  [loc EXCEPT !.changeSet[parsed.mediaQuery] =
                  updateRules(loc.idClass, parsed.pseudoSelector, rules, @)]
    ELSE loc

\* ProcessAttribute without the test that the element has no identity yet
ProcessAttributeReassigning(element, attr, loc) ==
    IF ~StartsWith(attr, config.attributeName \o config.separator)
    THEN loc
    ELSE LET rules == attrs[element][attr]
         IN  UpsertRule(element, attr, rules,
                        IF rules # <<>>
                        THEN AssignIdentity(element, loc)
                        ELSE loc)

\* ProcessAttribute without the test that the attribute has a value
ProcessAttributeEager(element, attr, loc) ==
    IF ~StartsWith(attr, config.attributeName \o config.separator)
    THEN loc
    ELSE LET rules == attrs[element][attr]
         IN  UpsertRule(element, attr, rules,
                        IF loc.idClass = Undefined
                        THEN AssignIdentity(element, loc)
                        ELSE loc)

\* processElementStyle, the body of the loop over the attribute names
ProcessAttribute(element, attr, loc) ==
    IF ~StartsWith(attr, config.attributeName \o config.separator)
    THEN loc
    ELSE LET rules == attrs[element][attr]
         IN  UpsertRule(element, attr, rules,
                        IF loc.idClass = Undefined /\ rules # <<>>
                        THEN AssignIdentity(element, loc)
                        ELSE loc)

RECURSIVE ProcessAttributes(_, _, _)
ProcessAttributes(element, names, loc) ==
    IF names = <<>> THEN loc
    ELSE ProcessAttributes(element, Tail(names),
                           ProcessAttribute(element, Head(names), loc))

\* processElementStyle(element, config, changeSet)
processElementStyle(element, loc) ==
    ProcessAttributes(element, PresentAttrs(element, StyleAttrs),
                      [loc EXCEPT !.idClass = loc.idAttr[element]])

\* removeElementStyle, the body of the loop over the attribute names
RemoveAttribute(attr, loc) ==
    IF ~StartsWith(attr, config.attributeName \o config.separator)
    THEN loc
    ELSE LET parsed == parseAttribute(attr, config)
         IN  [loc EXCEPT !.changeSet[parsed.mediaQuery] =
                  updateRules(loc.idClass, parsed.pseudoSelector, <<>>, @)]

RECURSIVE RemoveAttributes(_, _)
RemoveAttributes(names, loc) ==
    IF names = <<>> THEN loc
    ELSE RemoveAttributes(Tail(names), RemoveAttribute(Head(names), loc))

\* removeElementStyle(element, config, changeSet)
removeElementStyle(element, loc) ==
    IF loc.idAttr[element] = Undefined
    THEN loc
    ELSE RemoveAttributes(PresentAttrs(element, StyleAttrs),
                          [loc EXCEPT !.idClass = loc.idAttr[element]])

\* applyOnNodeTree(node, fn): fn on every HTMLElement of the snapshot, which
\* lists the matched elements in the order snapshot; removing tells which
\* of the two functions fn is
RECURSIVE applyOnNodeTree(_, _, _)
applyOnNodeTree(snapshot, removing, loc) ==
    IF snapshot = <<>> THEN loc
    ELSE LET el == Head(snapshot)
         IN  applyOnNodeTree(Tail(snapshot), removing,
                 IF ~isHTML[el] THEN loc
                 ELSE IF removing THEN removeElementStyle(el, loc)
                 ELSE processElementStyle(el, loc))

\* the node of a list of at most one node, as the host's appendChild and
\* removeChild record them
NodeOf(list) == IF list = <<>> THEN Detached ELSE list[1]

\* the callback of attrObserver for one record; register's own pass is the
\* record of type "initial".  snapA and snapR are the snapshots of the
\* added and of the removed node.
HandleRecord(record, snapA, snapR, loc) ==
    IF record.type = "initial"
    THEN applyOnNodeTree(snapA, FALSE, loc)
    ELSE IF record.type = "attributes"
            /\ StartsWith(record.attributeName, AttrUndefined)
    THEN processElementStyle(record.target, loc)
    ELSE IF record.type = "childList"
    THEN applyOnNodeTree(snapR, TRUE, applyOnNodeTree(snapA, FALSE, loc))
    ELSE loc

\* the node whose tree a record has processElementStyle applied to
AddedTop(record) ==
    IF record.type = "initial" THEN record.target
    ELSE IF record.type = "childList" THEN NodeOf(record.addedNodes)
    ELSE Detached

RemovedTop(record) ==
    IF record.type = "childList" THEN NodeOf(record.removedNodes) ELSE Detached

Loc ==
    [idClass |-> Undefined, changeSet |-> changeSet, idAttr |-> idAttr,
     classList |-> classList, styleTags |-> styleTags, queue |-> queue]

\* the orders in which the snapshot of applyOnNodeTree(top, fn) may list the
\* matched elements (UNORDERED_NODE_SNAPSHOT_TYPE); none when there is no node
Snapshots(top) == IF top = Detached THEN {<<>>} ELSE Orders(Matched(top))

(***************************************************************************)
(* The style tag store.                                                    *)
(***************************************************************************)

\* createStyleTag(mediaQuery) on store, the style elements of the document
\* (head) and the styleTags object (tags): when the document has a
\* style[js-style] element with that media attribute the function returns
\* at once, and styleTags is left as it is; otherwise a new, empty element
\* is appended to the head and entered in styleTags.  (The selector quotes
\* the media query through CSS.escape, which the selector parser undoes:
\* the element is found exactly when its media attribute is mediaQuery.)
createStyleTag(mediaQuery, store) ==
    IF store.head[mediaQuery] > 0 THEN store
    ELSE [head |-> [store.head EXCEPT ![mediaQuery] = @ + 1],
          tags |-> [q \in DOMAIN store.tags \cup {mediaQuery} |->
                       IF q = mediaQuery
                       THEN [textContent |-> <<>>, lastId |-> Undefined]
                       ELSE store.tags[q]]]

\* register, lines 88-90
RECURSIVE CreateStyleTags(_, _)
CreateStyleTags(mqs, store) ==
    IF mqs = <<>> THEN store
    ELSE CreateStyleTags(Tail(mqs), createStyleTag(Head(mqs).query, store))

\* getStyleTag(query) is undefined for a media query of the configuration:
\* reading or writing its textContent throws a TypeError
StyleTagMissing(tags) == \E q \in QuerySet : q \notin DOMAIN tags

\* batchChanges, lines 62-65: the change set seeded from the style tags
SeedChangeSet(tags) == [q \in QuerySet |-> tags[q].textContent]

(***************************************************************************)
(* Initial state: the document before register is called.                  *)
(***************************************************************************)

NoTags == [q \in {} |-> [textContent |-> <<>>, lastId |-> Undefined]]
NoChangeSet == [q \in {} |-> <<>>]

\* no call of parseAttribute is followed
NoResult == [mediaQuery |-> "", pseudoSelector |-> <<>>]
NoParse == [attr |-> <<>>, config |-> config, called |-> FALSE, result |-> NoResult]

\* no call of updateRules is followed
NoEdit == [blocks |-> <<>>, idClass |-> <<>>, pseudoSelector |-> <<>>,
           rules |-> <<>>, allRules |-> <<>>, called |-> FALSE, result |-> <<>>]

\* the earlier generation is not loaded: nothing is registered with it
NoLegacy ==
    /\ nodeRegistry = <<>>
    /\ cleanUpRegistry = <<>>
    /\ registrations = <<>>
    /\ listeners = {}
    /\ observers = {}
    /\ elementAttrs = [e \in {"h2"} |->
                          [style |-> Undefined, base |-> Undefined, lg |-> Undefined]]
    /\ matches = FALSE
    /\ lastCall = [n \in {"document", "h2"} |-> "none"]

\* the value of style:lg in E1's markup when the script starts: none, or r
Markup == {Undefined, <<"r">>}

\* the style[js-style] elements in the markup when the script starts: for
\* each media query of the configuration, none or one
MarkupStyles == [QuerySet -> {0, 1}]

Init ==
    /\ parent = Home
    /\ isHTML \in {f \in [Nodes -> BOOLEAN] : f[Root] /\ f["E1"]}
    /\ \E m \in Markup :
          attrs = [n \in Nodes |-> [a \in {AttrLg, AttrHover} |->
                      IF n = "E1" /\ a = AttrLg THEN m ELSE Undefined]]
    /\ idAttr = [n \in Nodes |-> Undefined]
    /\ classList = [n \in Nodes |-> {}]
    /\ styleTags = NoTags
    /\ observing = FALSE
    /\ queue = <<>>
    /\ pc = "idle"
    /\ initial = FALSE
    /\ records = <<>>
    /\ changeSet = NoChangeSet
    /\ commitLeft = <<>>
    /\ nMut = 0
    /\ head \in MarkupStyles
    /\ written = <<>>
    /\ thrown = FALSE
    /\ parse = NoParse
    /\ edit = NoEdit
    /\ NoLegacy

(***************************************************************************)
(* The host: mutations of the document, between passes.                    *)
(***************************************************************************)

\* the records of the engine's own writes are delivered (a microtask) before
\* the host's next task runs
EngineRecordPending ==
    \E i \in 1..Len(queue) :
        queue[i].attributeName \in {config.idAttributeName, ClassAttr}

\* the document is followed no further once register has thrown
HostMay == pc = "idle" /\ nMut < MaxMutations /\ ~EngineRecordPending /\ ~thrown

Enqueue(n, record) == IF Observed(n) THEN queue \o <<record>> ELSE queue

\* element.setAttribute(attr, value) for a styling attribute
SetAttribute(e, attr, value) ==
    /\ HostMay
    /\ attrs' = [attrs EXCEPT ![e][attr] = value]
    /\ queue' = Enqueue(e, AttrRecord(e, attr))
    /\ nMut' = nMut + 1
    /\ UNCHANGED aside
    /\ UNCHANGED <<parent, isHTML, idAttr, classList, styleTags, observing,
                   pc, initial, records, changeSet, commitLeft,
                   head, written, thrown>>

\* element.removeAttribute(attr) for a styling attribute the element has
RemoveAttr(e, attr) ==
    /\ HostMay
    /\ attrs[e][attr] # Undefined
    /\ attrs' = [attrs EXCEPT ![e][attr] = Undefined]
    /\ queue' = Enqueue(e, AttrRecord(e, attr))
    /\ nMut' = nMut + 1
    /\ UNCHANGED aside
    /\ UNCHANGED <<parent, isHTML, idAttr, classList, styleTags, observing,
                   pc, initial, records, changeSet, commitLeft,
                   head, written, thrown>>

\* element.setAttribute of an attribute whose name starts with "undefined";
\* no code reads its value
SetUndefinedAttribute(e) ==
    /\ HostMay
    /\ queue' = Enqueue(e, AttrRecord(e, AttrUndefined))
    /\ nMut' = nMut + 1
    /\ UNCHANGED aside
    /\ UNCHANGED <<parent, isHTML, attrs, idAttr, classList, styleTags,
                   observing, pc, initial, records, changeSet, commitLeft,
                   head, written, thrown>>

\* Home[e].appendChild(e) for a detached e
AppendChild(e) ==
    /\ HostMay
    /\ parent[e] = Detached
    /\ parent' = [parent EXCEPT ![e] = Home[e]]
    /\ queue' = Enqueue(Home[e], ChildRecord(Home[e], <<e>>, <<>>))
    /\ nMut' = nMut + 1
    /\ UNCHANGED aside
    /\ UNCHANGED <<isHTML, attrs, idAttr, classList, styleTags, observing,
                   pc, initial, records, changeSet, commitLeft,
                   head, written, thrown>>

\* parent.removeChild(e) for an attached e
RemoveChild(e) ==
    /\ HostMay
    /\ parent[e] # Detached
    /\ parent' = [parent EXCEPT ![e] = Detached]
    /\ queue' = Enqueue(parent[e], ChildRecord(parent[e], <<>>, <<e>>))
    /\ nMut' = nMut + 1
    /\ UNCHANGED aside
    /\ UNCHANGED <<isHTML, attrs, idAttr, classList, styleTags, observing,
                   pc, initial, records, changeSet, commitLeft,
                   head, written, thrown>>

(***************************************************************************)
(* register and the passes.                                                *)
(***************************************************************************)

InitialRecord ==
    [type |-> "initial", target |-> Root, attributeName |-> Undefined,
     addedNodes |-> <<>>, removedNodes |-> <<>>]

\* register(node, options), lines 88-92 up to the seeding of the change set
\* of its own pass; the pass runs before register returns.  When a style
\* tag is missing the seeding throws, and register ends there.
Register ==
    /\ pc = "idle"
    /\ ~observing
    /\ ~thrown
    /\ DOMAIN styleTags = {}
    /\ LET store == CreateStyleTags(config.mediaQueries,
                                    [head |-> head, tags |-> styleTags])
       IN  /\ head' = store.head
           /\ styleTags' = store.tags
           /\ IF StyleTagMissing(store.tags)
              THEN /\ thrown' = TRUE
                   /\ UNCHANGED <<changeSet, records, initial, pc>>
              ELSE /\ changeSet' = SeedChangeSet(store.tags)
                   /\ records' = <<InitialRecord>>
                   /\ initial' = TRUE
                   /\ pc' = "collecting"
                   /\ UNCHANGED thrown
    /\ written' = <<>>
    /\ UNCHANGED aside
    /\ UNCHANGED <<parent, isHTML, attrs, idAttr, classList, observing, queue,
                   commitLeft, nMut>>

\* the observer's callback is called with the queued records: batchChanges
\* seeds the change set
BeginPass ==
    /\ pc = "idle"
    /\ observing
    /\ queue # <<>>
    /\ queue' = <<>>
    /\ IF StyleTagMissing(styleTags)
       THEN /\ thrown' = TRUE
            /\ UNCHANGED <<changeSet, records, pc>>
       ELSE /\ changeSet' = SeedChangeSet(styleTags)
            /\ records' = queue
            /\ pc' = "collecting"
            /\ UNCHANGED thrown
    /\ initial' = FALSE
    /\ written' = <<>>
    /\ UNCHANGED aside
    /\ UNCHANGED <<parent, isHTML, attrs, idAttr, classList, styleTags,
                   observing, commitLeft, nMut, head>>

\* fn(changeSet) of batchChanges, one record at a time
ProcessRecord ==
    /\ pc = "collecting"
    /\ records # <<>>
    /\ \E snapA \in Snapshots(AddedTop(Head(records))),
          snapR \in Snapshots(RemovedTop(Head(records))) :
          LET loc == HandleRecord(Head(records), snapA, snapR, Loc)
          IN  /\ changeSet' = loc.changeSet
              /\ idAttr' = loc.idAttr
              /\ classList' = loc.classList
              /\ styleTags' = loc.styleTags
              /\ queue' = loc.queue
    /\ records' = Tail(records)
    /\ pc' = IF Tail(records) = <<>> THEN "committing" ELSE "collecting"
    /\ commitLeft' = IF Tail(records) = <<>> THEN Queries ELSE <<>>
    /\ UNCHANGED aside
    /\ UNCHANGED <<parent, isHTML, attrs, observing, initial, nMut, head,
                   written, thrown>>

\* CommitOne with the style elements under the observed root: assigning
\* textContent replaces the children of the style element, which queues a
\* record of type childList unless there was no text and there is none
CommitOneObserved ==
    /\ pc = "committing"
    /\ commitLeft # <<>>
    /\ IF Head(commitLeft) \notin DOMAIN styleTags
       THEN /\ thrown' = TRUE
            /\ commitLeft' = <<>>
            /\ pc' = "idle"
            /\ changeSet' = NoChangeSet
            /\ initial' = FALSE
            /\ UNCHANGED <<styleTags, written, observing, queue>>
       ELSE /\ styleTags' = [styleTags EXCEPT
                                ![Head(commitLeft)].textContent =
                                    changeSet[Head(commitLeft)]]
            /\ queue' = IF /\ observing
                           /\ \/ styleTags[Head(commitLeft)].textContent # <<>>
                              \/ changeSet[Head(commitLeft)] # <<>>
                        THEN queue \o <<ChildRecord(Root, <<>>, <<>>)>>
                        ELSE queue
            /\ written' = Append(written, Head(commitLeft))
            /\ commitLeft' = Tail(commitLeft)
            /\ IF Tail(commitLeft) = <<>>
               THEN /\ pc' = "idle"
                    /\ changeSet' = NoChangeSet
                    /\ observing' = (observing \/ initial)
                    /\ initial' = FALSE
               ELSE UNCHANGED <<pc, changeSet, observing, initial>>
            /\ UNCHANGED thrown
    /\ UNCHANGED aside
    /\ UNCHANGED <<parent, isHTML, attrs, idAttr, classList, records,
                   nMut, head>>

\* batchChanges, lines 69-71: one key of the change set written back,
\* whatever its text; after the last one the pass is over, and register goes
\* on to observe.  A missing style tag throws, which ends the loop and the
\* pass, and register before it observes.
CommitOne ==
    /\ pc = "committing"
    /\ commitLeft # <<>>
    /\ IF Head(commitLeft) \notin DOMAIN styleTags
       THEN /\ thrown' = TRUE
            /\ commitLeft' = <<>>
            /\ pc' = "idle"
            /\ changeSet' = NoChangeSet
            /\ initial' = FALSE
            /\ UNCHANGED <<styleTags, written, observing>>
       ELSE /\ styleTags' = [styleTags EXCEPT
                                ![Head(commitLeft)].textContent =
                                    changeSet[Head(commitLeft)]]
            /\ written' = Append(written, Head(commitLeft))
            /\ commitLeft' = Tail(commitLeft)
            /\ IF Tail(commitLeft) = <<>>
               THEN /\ pc' = "idle"
                    /\ changeSet' = NoChangeSet
                    /\ observing' = (observing \/ initial)
                    /\ initial' = FALSE
               ELSE UNCHANGED <<pc, changeSet, observing, initial>>
            /\ UNCHANGED thrown
    /\ UNCHANGED aside
    /\ UNCHANGED <<parent, isHTML, attrs, idAttr, classList, queue, records,
                   nMut, head>>

Next ==
    \/ \E e \in Elems, v \in Values :
          \E attr \in HostAttrs[e] : SetAttribute(e, attr, v)
    \/ \E e \in Elems : \E attr \in HostAttrs[e] : RemoveAttr(e, attr)
    \/ \E e \in Elems : SetUndefinedAttribute(e)
    \/ \E e \in Elems : AppendChild(e)
    \/ \E e \in Elems : RemoveChild(e)
    \/ Register
    \/ BeginPass
    \/ ProcessRecord
    \/ CommitOne

Spec == Init /\ [][Next]_vars

(***************************************************************************)
(* Vocabulary of the properties.                                           *)
(***************************************************************************)

\* the elements the engine handles: the instances of HTMLElement
HtmlElems == {e \in Elems : isHTML[e]}

StyleAttrSet == {StyleAttrs[i] : i \in 1..Len(StyleAttrs)}

Query(attr)  == parseAttribute(attr, config).mediaQuery
Pseudo(attr) == parseAttribute(attr, config).pseudoSelector

\* the selector of element e's block for attr; e has an identity
SelectorOf(e, attr) == Selector(idAttr[e], Pseudo(attr))

\* the text of a block
Block(selector, body) == StartSelector(selector) \o body \o EndSelector(selector)

Contains(buf, text) == IndexOf(buf, text) > -1

\* the number of places of buf where text occurs
Occurrences(buf, text) ==
    Cardinality({i \in 0..(Len(buf) - Len(text)) :
                    SubSeq(buf, i + 1, i + Len(text)) = text})

\* buf holds a block for the selector: its start marker occurs
HasBlock(buf, selector) == Contains(buf, StartSelector(selector))

\* the text from the selector's start marker through its end marker
BlockSpan(buf, selector) ==
    IF ~HasBlock(buf, selector) THEN <<>>
    ELSE Slice(buf, IndexOf(buf, StartSelector(selector)),
               IndexOf(buf, EndSelector(selector)) + Len(EndSelector(selector)))

\* the persisted text of a media query's stylesheet
Text(q) == styleTags[q].textContent

\* the engine is idle, observing, and every record has been delivered
Settled == pc = "idle" /\ observing /\ queue = <<>>

\* the record a ProcessRecord step handles
Handling(type) == pc = "collecting" /\ records # <<>> /\ Head(records).type = type

(***************************************************************************)
(* C1.  Synchronization: whenever the engine is idle after register and    *)
(* any mutation batches, a stylesheet holds the block of (element,         *)
(* attribute, body) if and only if the element is attached under the root  *)
(* and carries the attribute with that non-empty body.                     *)
(***************************************************************************)
C1_Synchronized ==
    Settled =>
        \A e \in HtmlElems, attr \in StyleAttrSet, body \in Bodies :
            (/\ idAttr[e] # Undefined
             /\ Contains(Text(Query(attr)), Block(SelectorOf(e, attr), body)))
            <=> (InTree(e) /\ attrs[e][attr] = body)

(***************************************************************************)
(* C2.  Attribute change: handling the attribute record of a styling       *)
(* attribute whose element has a block with another body puts the          *)
(* attribute's body into that block, in place, and leaves one block.       *)
(***************************************************************************)
C2_Stale(r) ==
    /\ r.attributeName \in StyleAttrSet
    /\ r.target \in HtmlElems
    /\ idAttr[r.target] # Undefined
    /\ attrs[r.target][r.attributeName] \in Bodies
    /\ \E b1 \in Bodies \ {attrs[r.target][r.attributeName]} :
          Contains(changeSet[Query(r.attributeName)],
                   Block(SelectorOf(r.target, r.attributeName), b1))

C2_Updated(r) ==
    LET sel   == SelectorOf(r.target, r.attributeName)
        old   == changeSet[Query(r.attributeName)]
        new   == changeSet'[Query(r.attributeName)]
        block == Block(sel, attrs[r.target][r.attributeName])
    IN  /\ Contains(new, block)
        /\ IndexOf(new, block) = IndexOf(old, StartSelector(sel))
        /\ Occurrences(new, StartSelector(sel)) = 1

C2_AttributeChange ==
    [][(Handling("attributes") /\ C2_Stale(Head(records)))
          => C2_Updated(Head(records))]_vars

(***************************************************************************)
(* C3.  Deletion: handling the attribute record of a styling attribute     *)
(* that was emptied or removed takes the element's block for it out of the *)
(* stylesheet, and the element keeps its identity marker and class.        *)
(***************************************************************************)
C3_Emptied(r) ==
    /\ r.attributeName \in StyleAttrSet
    /\ r.target \in HtmlElems
    /\ idAttr[r.target] # Undefined
    /\ attrs[r.target][r.attributeName] \in {Undefined, <<>>}
    /\ HasBlock(changeSet[Query(r.attributeName)],
                SelectorOf(r.target, r.attributeName))

C3_Deletion ==
    [][(Handling("attributes") /\ C3_Emptied(Head(records)))
          => /\ ~HasBlock(changeSet'[Query(Head(records).attributeName)],
                          SelectorOf(Head(records).target,
                                     Head(records).attributeName))
             /\ idAttr' = idAttr
             /\ classList' = classList]_vars

(***************************************************************************)
(* C4.  Subtree removal: handling a record that removes node R leaves no   *)
(* block for any styling attribute carried by an element of R's subtree    *)
(* that has an identity, leaves the blocks of the elements outside the     *)
(* subtree as they were, and gives no element an identity.                 *)
(***************************************************************************)
C4_Removes(top) ==
    /\ \A e \in Subtree(top) \cap HtmlElems, attr \in StyleAttrSet :
          (idAttr[e] # Undefined /\ attrs[e][attr] # Undefined)
             => ~HasBlock(changeSet'[Query(attr)], SelectorOf(e, attr))
    /\ \A e \in HtmlElems \ Subtree(top), attr \in StyleAttrSet :
          idAttr[e] # Undefined
             => BlockSpan(changeSet'[Query(attr)], SelectorOf(e, attr))
                   = BlockSpan(changeSet[Query(attr)], SelectorOf(e, attr))
    /\ idAttr' = idAttr

C4_SubtreeRemoval ==
    [][(Handling("childList") /\ Head(records).removedNodes # <<>>)
          => C4_Removes(Head(records).removedNodes[1])]_vars

(***************************************************************************)
(* C5.  Initial pass and subtree addition: after register's own pass has   *)
(* scanned the root, and after a record that adds a node has been handled, *)
(* every element of the scanned subtree that carries a styling attribute   *)
(* with a non-empty body has an identity marker and class, and the working *)
(* text of the attribute's media query holds its block with that body.     *)
(***************************************************************************)
C5_Compiled(top) ==
    \A e \in Subtree(top) \cap HtmlElems, attr \in StyleAttrSet :
        attrs[e][attr] \in Bodies
           => /\ idAttr'[e] # Undefined
              /\ idAttr'[e] \in classList'[e]
              /\ Contains(changeSet'[Query(attr)],
                          Block(Selector(idAttr'[e], Pseudo(attr)), attrs[e][attr]))

C5_InitialAndAdded ==
    [][/\ Handling("initial") => C5_Compiled(Root)
       /\ (Handling("childList") /\ Head(records).addedNodes # <<>>)
             => C5_Compiled(Head(records).addedNodes[1])]_vars

(***************************************************************************)
(* C6.  Idempotence: from any buffers a pass works on, deriving an         *)
(* element's styling attributes a second time, the document unchanged,     *)
(* leaves every working text as the first derivation left it.              *)
(***************************************************************************)
C6_Idempotent ==
    pc = "collecting" =>
        \A e \in HtmlElems :
            LET once  == processElementStyle(e, Loc)
                twice == processElementStyle(e, once)
            IN  twice.changeSet = once.changeSet

(***************************************************************************)
(* C7.  Block uniqueness: in every state, persisted and working texts hold *)
(* at most one block per selector of an element, and no block with an      *)
(* empty body.                                                             *)
(***************************************************************************)
Buffers(q) ==
    {Text(q)} \cup (IF q \in DOMAIN changeSet THEN {changeSet[q]} ELSE {})

C7_BlockUnique ==
    \A q \in DOMAIN styleTags, e \in HtmlElems, attr \in StyleAttrSet :
        idAttr[e] # Undefined =>
            \A buf \in Buffers(q) :
                /\ Occurrences(buf, StartSelector(SelectorOf(e, attr))) <= 1
                /\ ~Contains(buf, Block(SelectorOf(e, attr), <<>>))

(***************************************************************************)
(* C8.  Identity permanence: an element has no identity or one token,      *)
(* which is its marker and its only identity class; no step replaces or    *)
(* removes a token once assigned; and every block in a stylesheet carries  *)
(* the token of an element.                                                *)
(***************************************************************************)
Tokens == {config.idClassPrefix \o NumberToString(n) : n \in 1..(Cardinality(Elems) + 1)}
Pseudos == {Pseudo(attr) : attr \in StyleAttrSet}

C8_IdentityPermanent ==
    [][/\ \A e \in Elems :
             /\ idAttr[e] # Undefined => idAttr'[e] = idAttr[e]
             /\ classList'[e] = IF idAttr'[e] = Undefined THEN {} ELSE {idAttr'[e]}
       /\ \A q \in DOMAIN changeSet', token \in Tokens, ps \in Pseudos :
             HasBlock(changeSet'[q], Selector(token, ps))
                => \E e \in Elems : idAttr'[e] = token]_vars

\* a later pass has rewritten the block of an element under the token the
\* element was given in an earlier pass
C8_Witness ==
    /\ pc = "committing"
    /\ ~initial
    /\ \E e \in Elems, attr \in StyleAttrSet :
          /\ idAttr[e] # Undefined
          /\ HasBlock(Text(Query(attr)), SelectorOf(e, attr))
          /\ HasBlock(changeSet[Query(attr)], SelectorOf(e, attr))
          /\ BlockSpan(changeSet[Query(attr)], SelectorOf(e, attr))
                # BlockSpan(Text(Query(attr)), SelectorOf(e, attr))

(***************************************************************************)
(* C9.  Isolation: no two elements have the same identity token, and       *)
(* handling a record leaves the block of every element the record does not *)
(* concern as it was.                                                      *)
(***************************************************************************)
\* the elements a record has a function of the engine applied to
Concerned(record) ==
    IF record.type = "initial" THEN Subtree(Root)
    ELSE IF record.type = "attributes" THEN {record.target}
    ELSE (IF record.addedNodes = <<>> THEN {} ELSE Subtree(record.addedNodes[1]))
            \cup (IF record.removedNodes = <<>> THEN {}
                  ELSE Subtree(record.removedNodes[1]))

C9_Isolation ==
    [][/\ \A e1, e2 \in Elems :
             (e1 # e2 /\ idAttr'[e1] # Undefined) => idAttr'[e1] # idAttr'[e2]
       /\ (pc = "collecting" /\ records # <<>>)
             => \A e \in HtmlElems \ Concerned(Head(records)), attr \in StyleAttrSet :
                   idAttr[e] # Undefined
                      => BlockSpan(changeSet'[Query(attr)], SelectorOf(e, attr))
                            = BlockSpan(changeSet[Query(attr)], SelectorOf(e, attr))]_vars

(***************************************************************************)
(* parseAttribute on its own: a configuration and an attribute name are    *)
(* chosen, and parseAttribute is called on them.                           *)
(***************************************************************************)

\* bound: the number of separator-delimited tokens after the prefix
MaxTokens == 3

ParseNamespaces == {Undefined, <<"s">>, <<"d", "-", "s">>}
ParseSeparators == {Undefined, <<":">>, <<"-">>}
ParseMediaQueries ==
    {<<>>,
     <<[id |-> <<"l", "g">>, query |-> "screen and (min-width: 1280px)"]>>,
     <<[id |-> <<"l", "g">>, query |-> "screen and (min-width: 1280px)"],
       [id |-> <<"h">>, query |-> "(hover: hover)"]>>}
ParseTokens == {<<>>, <<"l", "g">>, <<"h">>}

ParseConfigs ==
    {createConfig([mediaQueries |-> mqs, attributeName |-> ns, separator |-> sep,
                   idAttributeName |-> Undefined, classPrefix |-> Undefined]) :
        mqs \in ParseMediaQueries, ns \in ParseNamespaces, sep \in ParseSeparators}

\* the attribute names that start with attributeName + separator
ParseAttrs(cfg) ==
    {cfg.attributeName \o cfg.separator \o Join(tokens, cfg.separator) :
        tokens \in UNION {[1..k -> ParseTokens] : k \in 0..MaxTokens}}

\* no registration: register is not called
Unregistered ==
    /\ parent = Home
    /\ isHTML = [n \in Nodes |-> TRUE]
    /\ attrs = [n \in Nodes |-> [a \in {AttrLg, AttrHover} |-> Undefined]]
    /\ idAttr = [n \in Nodes |-> Undefined]
    /\ classList = [n \in Nodes |-> {}]
    /\ styleTags = NoTags
    /\ observing = FALSE
    /\ queue = <<>>
    /\ pc = "idle"
    /\ initial = FALSE
    /\ records = <<>>
    /\ changeSet = NoChangeSet
    /\ commitLeft = <<>>
    /\ nMut = 0
    /\ head = [q \in QuerySet |-> 0]
    /\ written = <<>>
    /\ thrown = FALSE

InitParse ==
    /\ Unregistered
    /\ edit = NoEdit
    /\ NoLegacy
    /\ \E cfg \in ParseConfigs : \E attr \in ParseAttrs(cfg) :
          parse = [attr |-> attr, config |-> cfg, called |-> FALSE,
                   result |-> NoResult]

\* parseAttribute(attr, config) is called
ParseCall ==
    /\ ~parse.called
    /\ parse' = [parse EXCEPT !.called = TRUE,
                              !.result = parseAttribute(parse.attr, parse.config)]
    /\ UNCHANGED <<engine, edit, legacy>>

NextParse == ParseCall

SpecParse == InitParse /\ [][NextParse]_vars

(***************************************************************************)
(* C10.  Attribute key parsing: parseAttribute returns what the reference  *)
(* algorithm returns: strip attributeName and separator, split the rest on *)
(* the separator; a first token that is the id of a configured media query *)
(* selects it, and the other tokens joined by the separator are the        *)
(* pseudo-selector name; otherwise the unconditional media query is        *)
(* selected and the whole rest is the name; a non-empty name gets one      *)
(* leading colon.                                                          *)
(***************************************************************************)
ReferenceParse(attr, cfg) ==
    LET prefix     == Len(cfg.attributeName) + Len(cfg.separator)
        rest       == SubSeq(attr, prefix + 1, Len(attr))
        tokens     == Split(rest, cfg.separator)
        configured == Tail(cfg.mediaQueries)
        known      == \E i \in 1..Len(configured) : configured[i].id = tokens[1]
        name       == IF known THEN Join(Tail(tokens), cfg.separator) ELSE rest
    IN  [mediaQuery     |-> IF known THEN FindQuery(configured, tokens[1]) ELSE "",
         pseudoSelector |-> IF name # <<>> THEN <<":">> \o name ELSE <<>>]

C10_ParseAsReference ==
    parse.called
       => parse.result = ReferenceParse(parse.attr, parse.config)

(***************************************************************************)
(* Vocabulary of the properties of the store.                              *)
(***************************************************************************)

Range(seq) == {seq[i] : i \in 1..Len(seq)}

\* a step assigns the textContent of the style element of q
Writes(q) == written' = Append(written, q)

(***************************************************************************)
(* C11.  Commit only what changed: a pass assigns the text of a media      *)
(* query's stylesheet only when the working text differs from the text the *)
(* change set was seeded with (the persisted text, which no step of the    *)
(* pass before the commit changes).                                        *)
(***************************************************************************)
C11_CommitOnlyChanged ==
    [][\A q \in QuerySet :
          Writes(q) => changeSet[q] # styleTags[q].textContent]_vars

(***************************************************************************)
(* C12.  One write per stylesheet per pass, in the commit phase only: the  *)
(* persisted text of a stylesheet changes only by a write of the commit    *)
(* phase, after every record of the batch has been handled; while records  *)
(* are handled nothing has been written; and a write is the first of its   *)
(* media query in the pass and stores the whole working text.              *)
(***************************************************************************)
C12_OneWritePerPass ==
    [][/\ \A q \in DOMAIN styleTags \cap DOMAIN styleTags' :
             styleTags'[q].textContent # styleTags[q].textContent
                => pc = "committing" /\ records = <<>> /\ Writes(q)
       /\ pc' = "collecting" => written' = <<>>
       /\ \A q \in QuerySet :
             Writes(q) => /\ pc = "committing"
                          /\ records = <<>>
                          /\ q \notin Range(written)
                          /\ styleTags'[q].textContent = changeSet[q]]_vars

\* a pass that handled a batch of two records or more is writing its texts:
\* one stylesheet is written, with a block, and another is still to write
C12_Witness ==
    /\ pc = "committing"
    /\ ~initial
    /\ written # <<>>
    /\ commitLeft # <<>>
    /\ \E q \in Range(written) :
          /\ Text(q) # <<>>
          /\ Text(q) = changeSet[q]

(***************************************************************************)
(* C13.  Independent commits on failure: when a pass fails on the          *)
(* stylesheet of one media query, whose style tag is missing, the working  *)
(* texts of the other media queries have been written to their             *)
(* stylesheets in that pass.                                               *)
(***************************************************************************)
C13_IndependentCommits ==
    thrown => \A q \in QuerySet \cap DOMAIN styleTags : q \in Range(written)

(***************************************************************************)
(* C17.  Lazy identity: a step gives an element an identity only if the    *)
(* element carries a styling attribute with a non-empty value; and         *)
(* processing an element whose styling attributes are all empty or absent  *)
(* assigns no identity, does not advance the counter and changes no        *)
(* working text.                                                           *)
(***************************************************************************)
NoBody(e) == \A attr \in StyleAttrSet : attrs[e][attr] \in {Undefined, <<>>}

\* processElementStyle(e) changes nothing
Inert(e) ==
    LET after == processElementStyle(e, Loc)
    IN  /\ after.idAttr = idAttr
        /\ after.classList = classList
        /\ after.styleTags = styleTags
        /\ after.changeSet = changeSet
        /\ after.queue = queue

AssignedLazily ==
    \A e \in Elems :
        (idAttr[e] = Undefined /\ idAttr'[e] # Undefined)
           => ~NoBody(e) /\ idAttr'[e] \in classList'[e]

\* as stated: for every element without a non-empty styling attribute
C17_LazyIdentity ==
    [][/\ AssignedLazily
       /\ pc = "collecting" => \A e \in HtmlElems : NoBody(e) => Inert(e)]_vars

\* amended: for every such element that has no identity; an element that
\* has one has its blocks deleted, which changes the working text
C17_LazyIdentityUnidentified ==
    [][/\ AssignedLazily
       /\ pc = "collecting"
             => \A e \in HtmlElems :
                   (NoBody(e) /\ idAttr[e] = Undefined) => Inert(e)]_vars

\* register's own pass has scanned an attached element that carries a
\* styling attribute with an empty value, and the element has no identity
C17_Witness ==
    /\ pc = "committing"
    /\ initial
    /\ \E e \in HtmlElems :
          /\ InTree(e)
          /\ \E attr \in StyleAttrSet : attrs[e][attr] = <<>>
          /\ NoBody(e)
          /\ idAttr[e] = Undefined

(***************************************************************************)
(* C18.  Identity token format and counter: a newly assigned token is the  *)
(* configured identity class prefix, the idClassPrefix option or style-    *)
(* when there is none, followed by the counter; the counter is the last-id *)
(* of the unconditional stylesheet, starts at 1, and goes up by one per    *)
(* assignment; the element gets the token as its marker and as a class.    *)
(***************************************************************************)
IdClassPrefix ==
    IF Options.idClassPrefix = Undefined
    THEN <<"s", "t", "y", "l", "e", "-">>
    ELSE Options.idClassPrefix

Counter(tags) ==
    IF "" \in DOMAIN tags /\ tags[""].lastId # Undefined
    THEN ParseInt(tags[""].lastId)
    ELSE 0

C18_TokenFormat ==
    [][LET new == {e \in Elems : idAttr[e] = Undefined /\ idAttr'[e] # Undefined}
       IN  /\ Counter(styleTags') = Counter(styleTags) + Cardinality(new)
           /\ {idAttr'[e] : e \in new}
                 = {IdClassPrefix \o NumberToString(n) :
                       n \in (Counter(styleTags) + 1)..Counter(styleTags')}
           /\ \A e \in new : idAttr'[e] \in classList'[e]]_vars

(***************************************************************************)
(* C19.  Idempotent stylesheet creation: once register has created the     *)
(* style tags, the document has one style element per media query of the   *)
(* configuration and each has a retrievable style tag; creating a style    *)
(* tag again leaves the store, its texts and the counter, as it is.        *)
(***************************************************************************)
Registered == DOMAIN styleTags # {} \/ observing \/ thrown

C19_StoreIdempotent ==
    Registered =>
        \A q \in QuerySet :
            /\ head[q] = 1
            /\ q \in DOMAIN styleTags
            /\ createStyleTag(q, [head |-> head, tags |-> styleTags])
                  = [head |-> head, tags |-> styleTags]

(***************************************************************************)
(* updateRules on its own: a buffer made of blocks, an identity class, a   *)
(* pseudo-selector and a rule body are chosen, and updateRules is called   *)
(* on them.                                                                *)
(***************************************************************************)

\* bound: the number of blocks of the buffer
MaxBlocks == 3

\* selectors that share a prefix, and one that does not
EditSelectors ==
    {[idClass |-> <<"s", "t", "y", "l", "e", "-", "1">>, pseudoSelector |-> <<>>],
     [idClass |-> <<"s", "t", "y", "l", "e", "-", "1", "1">>, pseudoSelector |-> <<>>],
     [idClass |-> <<"s", "t", "y", "l", "e", "-", "1">>,
      pseudoSelector |-> <<":", "h", "o", "v", "e", "r">>],
     [idClass |-> <<"s", "t", "y", "l", "e", "-", "2">>, pseudoSelector |-> <<>>]}

\* rule bodies: plain text, a dollar sign before an apostrophe (as in
\* content:'$'), a dollar sign before an ampersand, and text that reads as
\* the start marker of a block
EditBodies ==
    {<<"r">>, <<"$", "'">>, <<"$", "&">>,
     <<".", "s", "t", "y", "l", "e", "-", "1", "{">>}

EditBlocks == [sel : EditSelectors, body : EditBodies]

\* the lists of at most MaxBlocks blocks, no two for one selector
EditBlockLists ==
    UNION {{l \in [1..k -> EditBlocks] :
               \A i, j \in 1..k : l[i].sel = l[j].sel => i = j} :
           k \in 0..MaxBlocks}

\* the text of a list of blocks, each as updateRules renders it (the value
\* of style in updateRules)
RECURSIVE Render(_)
Render(blocks) ==
    IF blocks = <<>> THEN <<>>
    ELSE LET sel == Selector(Head(blocks).sel.idClass, Head(blocks).sel.pseudoSelector)
         IN  StartSelector(sel) \o Head(blocks).body \o EndSelector(sel)
                \o Render(Tail(blocks))

InitRules ==
    /\ Unregistered
    /\ parse = NoParse
    /\ NoLegacy
    /\ \E blocks \in EditBlockLists, sel \in EditSelectors,
          rules \in EditBodies \cup {<<>>} :
          edit = [blocks |-> blocks, idClass |-> sel.idClass,
                  pseudoSelector |-> sel.pseudoSelector, rules |-> rules,
                  allRules |-> Render(blocks), called |-> FALSE, result |-> <<>>]

\* updateRules(idClass, pseudoSelector, rules, allRules) is called
UpdateRulesCall ==
    /\ ~edit.called
    /\ edit' = [edit EXCEPT !.called = TRUE,
                            !.result = updateRules(edit.idClass, edit.pseudoSelector,
                                                   edit.rules, edit.allRules)]
    /\ UNCHANGED <<engine, parse, legacy>>

NextRules == UpdateRulesCall

SpecRules == InitRules /\ [][NextRules]_vars

\* the selector the call is for, and the place of its block in the buffer
EditSelector == Selector(edit.idClass, edit.pseudoSelector)

EditPlace ==
    {i \in 1..Len(edit.blocks) :
        edit.blocks[i].sel = [idClass |-> edit.idClass,
                              pseudoSelector |-> edit.pseudoSelector]}

\* the text before and the text after the block at place i
Before(i) == Render(SubSeq(edit.blocks, 1, i - 1))
After(i)  == Render(SubSeq(edit.blocks, i + 1, Len(edit.blocks)))

EndsWith(s, p) == Len(p) <= Len(s) /\ SubSeq(s, Len(s) - Len(p) + 1, Len(s)) = p

(***************************************************************************)
(* C15.  Rule text edit frame: updateRules changes only the span of the    *)
(* selector's block.  When the buffer has a block for the selector, an     *)
(* empty body leaves the text before it followed by the text after it, and *)
(* a non-empty body leaves the text before it, a block of the selector in  *)
(* its place, and the text after it; when it has none, a non-empty body's  *)
(* block is appended and an empty body leaves the buffer as it is.         *)
(***************************************************************************)
C15_EditFrame ==
    edit.called =>
        /\ \A i \in EditPlace :
              IF edit.rules = <<>>
              THEN edit.result = Before(i) \o After(i)
              ELSE /\ StartsWith(edit.result,
                                 Before(i) \o StartSelector(EditSelector))
                   /\ EndsWith(edit.result,
                               EndSelector(EditSelector) \o After(i))
        /\ EditPlace = {} =>
              edit.result = edit.allRules
                  \o (IF edit.rules = <<>> THEN <<>>
                      ELSE Block(EditSelector, edit.rules))

(***************************************************************************)
(* C16.  Body forwarded verbatim: after updateRules with a non-empty body  *)
(* the buffer holds the selector's block with that body, character for     *)
(* character, whether the block was appended or replaced another.          *)
(***************************************************************************)
C16_BodyVerbatim ==
    (edit.called /\ edit.rules # <<>>)
       => Contains(edit.result, Block(EditSelector, edit.rules))

(***************************************************************************)
(* The earlier generation (src/unnamed/part_000): register and unregister  *)
(* with the node registry and the clean-up registry; the style attribute   *)
(* of an element is generated from its base:style and, when the lg media   *)
(* query matches, its lg:style attribute.  The model follows one media     *)
(* query, lg, and a document with one element, h2.                         *)
(***************************************************************************)

\* bound: the number of calls of register
MaxRegistrations == 3

Document == "document"
LegacyElements == {"h2"}
LegacyNodes == {Document} \cup LegacyElements

\* the values the host gives the lg:style attribute
LegacyValues == {<<"g">>, <<"n">>}

\* element.matches(attrSelector), getAttrSelector: the element has the
\* base:style attribute or the attribute of a media query
MatchesAttrSelector(a) == a.base # Undefined \/ a.lg # Undefined

\* processElementCssRules(element, mediaQueries) on the attributes a of the
\* element, m the matches property of the lg media query list
processElementCssRules(a, m) ==
    LET base  == IF a.base # Undefined THEN a.base
                 ELSE IF a.style # Undefined THEN a.style ELSE <<>>
        rules == IF a.lg # Undefined /\ m THEN base \o <<";">> \o a.lg ELSE base
    IN  [a EXCEPT !.base = base, !.style = rules]

\* node, or a descendant of node
Covers(node, e) == e = node \/ node = Document

\* the handlers of register: the node itself when it has getAttribute, and
\* the elements querySelectorAll(attrSelector) finds under it
Handlers(node) ==
    (IF node \in LegacyElements THEN <<"self">> ELSE <<>>) \o <<"descendants">>

\* handler(), for the handler of that kind of a register call on node
RunHandler(kind, node, ea, m) ==
    [e \in LegacyElements |->
        IF kind = "self"
        THEN IF e = node THEN processElementCssRules(ea[e], m) ELSE ea[e]
        ELSE IF e # node /\ Covers(node, e) /\ MatchesAttrSelector(ea[e])
             THEN processElementCssRules(ea[e], m)
             ELSE ea[e]]

RECURSIVE RunHandlers(_, _, _, _)
RunHandlers(kinds, node, ea, m) ==
    IF kinds = <<>> THEN ea
    ELSE RunHandlers(Tail(kinds), node, RunHandler(Head(kinds), node, ea, m), m)

\* Array.prototype.indexOf, 1-based; 0 when the node is not in the list
RegistryIndexOf(list, node) ==
    LET hits == {i \in 1..Len(list) : list[i] = node}
    IN  IF hits = {} THEN 0 ELSE CHOOSE i \in hits : \A j \in hits : i <= j

\* Array.prototype.splice(i, 1)
Splice(list, i) == SubSeq(list, 1, i - 1) \o SubSeq(list, i + 1, Len(list))

InitLegacy ==
    /\ Unregistered
    /\ parse = NoParse
    /\ edit = NoEdit
    /\ NoLegacy

\* register(node), part_000 lines 24-74
register(node) ==
    /\ Len(registrations) < MaxRegistrations
    /\ LET n == Len(registrations) + 1
       IN  /\ registrations' = Append(registrations, [node |-> node])
           /\ listeners' = listeners \cup
                  {[id |-> n, kind |-> Handlers(node)[k]] :
                      k \in 1..Len(Handlers(node))}
           /\ observers' = observers \cup {n}
           /\ cleanUpRegistry' = Append(cleanUpRegistry, n)
    /\ elementAttrs' = RunHandlers(Handlers(node), node, elementAttrs, matches)
    /\ nodeRegistry' = Append(nodeRegistry, node)
    /\ lastCall' = [lastCall EXCEPT ![node] = "register"]
    /\ UNCHANGED <<engine, parse, edit, matches>>

\* unregister(node), part_000 lines 76-83, on the registries reg: the first
\* entry of the node is spliced out of both, and its clean-up function
\* removes the listeners and disconnects the observer of its register call
unregisterIn(node, reg) ==
    LET i == RegistryIndexOf(reg.nodeRegistry, node)
    IN  IF i = 0 THEN reg
        ELSE [nodeRegistry    |-> Splice(reg.nodeRegistry, i),
              cleanUpRegistry |-> Splice(reg.cleanUpRegistry, i),
              listeners       |-> {l \in reg.listeners :
                                      l.id # reg.cleanUpRegistry[i]},
              observers       |-> reg.observers \ {reg.cleanUpRegistry[i]}]

Registries ==
    [nodeRegistry |-> nodeRegistry, cleanUpRegistry |-> cleanUpRegistry,
     listeners |-> listeners, observers |-> observers]

unregister(node) ==
    /\ LET reg == unregisterIn(node, Registries)
       IN  /\ nodeRegistry' = reg.nodeRegistry
           /\ cleanUpRegistry' = reg.cleanUpRegistry
           /\ listeners' = reg.listeners
           /\ observers' = reg.observers
    /\ lastCall' = IF RegistryIndexOf(nodeRegistry, node) = 0 THEN lastCall
                   ELSE [lastCall EXCEPT ![node] = "unregister"]
    /\ UNCHANGED <<engine, parse, edit, registrations, elementAttrs, matches>>

\* the callbacks of the connected observers, in the order of their
\* creation, for a record whose target is e (part_000 lines 60-64)
RECURSIVE ObserverCallbacks(_, _, _)
ObserverCallbacks(n, e, ea) ==
    IF n > Len(registrations) THEN ea
    ELSE ObserverCallbacks(n + 1, e,
             IF /\ n \in observers
                /\ Covers(registrations[n].node, e)
                /\ MatchesAttrSelector(ea[e])
             THEN [ea EXCEPT ![e] = processElementCssRules(ea[e], matches)]
             ELSE ea)

\* the host: element.setAttribute("lg:style", value); the records are
\* delivered when the host's task ends
SetLgStyle(e, value) ==
    /\ elementAttrs[e].lg # value
    /\ elementAttrs' = ObserverCallbacks(1, e,
                           [elementAttrs EXCEPT ![e].lg = value])
    /\ UNCHANGED <<engine, parse, edit, nodeRegistry, cleanUpRegistry,
                   registrations, listeners, observers, matches, lastCall>>

\* the change listeners, in the order they were added (part_000 line 51)
RECURSIVE ChangeListeners(_, _, _)
ChangeListeners(n, ea, m) ==
    IF n > Len(registrations) THEN ea
    ELSE LET node  == registrations[n].node
             kinds == SelectSeq(Handlers(node),
                                LAMBDA k : [id |-> n, kind |-> k] \in listeners)
         IN  ChangeListeners(n + 1, RunHandlers(kinds, node, ea, m), m)

\* the lg media query starts or stops matching: its change event
MediaChange ==
    /\ matches' = ~matches
    /\ elementAttrs' = ChangeListeners(1, elementAttrs, ~matches)
    /\ UNCHANGED <<engine, parse, edit, nodeRegistry, cleanUpRegistry,
                   registrations, listeners, observers, lastCall>>

NextLegacy ==
    \/ \E node \in LegacyNodes : register(node)
    \/ \E node \in LegacyNodes : unregister(node)
    \/ \E e \in LegacyElements, value \in LegacyValues : SetLgStyle(e, value)
    \/ MediaChange

SpecLegacy == InitLegacy /\ [][NextLegacy]_vars

(***************************************************************************)
(* C14.  Unregister: the two registries have equal length, entry i of one  *)
(* belonging to entry i of the other; once unregister has taken a          *)
(* registered root out, the root is not in the registry, and no later      *)
(* mutation or media query change alters the generated style of an element *)
(* under it (that no root registered since covers); unregister leaves the  *)
(* generated style as it is; and unregister of a node that is not          *)
(* registered changes nothing.                                             *)
(***************************************************************************)
\* the generated output of an element
Output(ea, e) == <<ea[e].style, ea[e].base>>

\* no root still registered by its last call covers e
Released(e) ==
    /\ \E root \in LegacyNodes : Covers(root, e) /\ lastCall'[root] = "unregister"
    /\ \A root \in LegacyNodes : Covers(root, e) => lastCall'[root] # "register"

C14_Unregister ==
    [][/\ Len(nodeRegistry') = Len(cleanUpRegistry')
       /\ \A i \in 1..Len(nodeRegistry') :
             registrations'[cleanUpRegistry'[i]].node = nodeRegistry'[i]
       /\ \A root \in LegacyNodes :
             lastCall'[root] = "unregister" => root \notin Range(nodeRegistry')
       /\ \A e \in LegacyElements :
             (Released(e) /\ lastCall' = lastCall)
                => Output(elementAttrs', e) = Output(elementAttrs, e)
       /\ Len(nodeRegistry') < Len(nodeRegistry) => elementAttrs' = elementAttrs
       /\ \A node \in LegacyNodes :
             node \notin Range(nodeRegistry)
                => unregisterIn(node, Registries) = Registries]_vars

(***************************************************************************)
(* The passes under fair scheduling: the bootstrap calls register, the     *)
(* browser delivers the queued records to the observer's callback, and a   *)
(* pass, being synchronous code, runs to its end.  Nothing obliges the     *)
(* host to mutate the document.  The style elements are children of the    *)
(* document's head and the observed root is a node beside it, so that the  *)
(* commit of a pass queues no record.                                      *)
(***************************************************************************)
\* The steps of the engine, each told by the variables that record its
\* position: a step of Next is a step of Register, BeginPass, ProcessRecord
\* or CommitOne exactly when it is the step of that name below, and each is
\* enabled exactly when the action is.

\* register runs up to the seeding of its pass, or throws there
RegisterRuns ==
    /\ pc = "idle"
    /\ ~observing
    /\ ~thrown
    /\ DOMAIN styleTags = {}
    /\ LET store == CreateStyleTags(config.mediaQueries,
                                    [head |-> head, tags |-> styleTags])
       IN  /\ styleTags' = store.tags
           /\ thrown' = StyleTagMissing(store.tags)

\* the queued records are delivered to the callback
PassBegins ==
    /\ pc = "idle"
    /\ observing
    /\ queue # <<>>
    /\ queue' = <<>>

\* the callback handles the next record of the batch
RecordHandled ==
    /\ pc = "collecting"
    /\ records # <<>>
    /\ records' = Tail(records)

\* the commit loop writes the next key back, or throws
KeyCommitted ==
    /\ pc = "committing"
    /\ commitLeft # <<>>
    /\ commitLeft' \in {Tail(commitLeft), <<>>}

SpecFair ==
    /\ Init
    /\ [][Next]_vars
    /\ WF_<<styleTags, thrown>>(RegisterRuns)
    /\ WF_queue(PassBegins)
    /\ WF_records(RecordHandled)
    /\ WF_commitLeft(KeyCommitted)

\* a record of one of the engine's own writes: the identity marker
\* attribute, or the class attribute
EngineRecord(record) ==
    /\ record.type = "attributes"
    /\ record.attributeName \in {config.idAttributeName, ClassAttr}

\* the callback is about to handle a record of the engine's own writes
FollowUp == pc = "collecting" /\ records # <<>> /\ EngineRecord(Head(records))

\* the engine is idle and no record is waiting
Quiet == pc = "idle" /\ queue = <<>>

(***************************************************************************)
(* C20.  Quiescence: a burst of at most MaxMutations host mutations leads  *)
(* to finitely many passes, after which the engine is idle for good with   *)
(* no record waiting; and a pass that handles a record of the engine's own *)
(* writes is made of such records only, starts from the text of the style  *)
(* elements, and in handling the record changes no buffer text, assigns no *)
(* identity and queues no record, so that its commit writes back the text  *)
(* that was there; the commit of a pass queues no record.                  *)
(***************************************************************************)
C20_Quiescence ==
    /\ <>[]Quiet
    /\ [][/\ FollowUp =>
               /\ \A i \in 1..Len(records) : EngineRecord(records[i])
               /\ \A q \in QuerySet : changeSet[q] = styleTags[q].textContent
               /\ changeSet' = changeSet
               /\ idAttr' = idAttr
               /\ classList' = classList
               /\ styleTags' = styleTags
               /\ queue' = queue
          /\ pc = "committing" => queue' = queue]_vars

\* a pass is handling a record of the identity the engine gave an element
C20_Witness ==
    /\ FollowUp
    /\ \E e \in Elems : idAttr[e] # Undefined /\ Observed(e)

=============================================================================
